---- MODULE Spec2Model ----
(***************************************************************************)
(* A model of mreis1/configparser, src/src/configparser.js: the INI parser *)
(* (parseLines), the store it fills (this._sections) and the store's API.  *)
(*                                                                         *)
(* A JavaScript string is a sequence of one-character strings, so that the *)
(* regular expressions of the source are computed character by character.  *)
(* A JavaScript object (the store, a section) is the sequence of its own   *)
(* properties in the order `for in` and Object.keys enumerate them.        *)
(***************************************************************************)
EXTENDS Integers, Sequences, FiniteSets, TLC

\* ------------------------------------------------------------------------
\* Characters
\* ------------------------------------------------------------------------

\* The characters \s matches, among those the model uses.
WS == {" ", "\t"}

\* The line terminators of ECMAScript, which `.` does not match.
LineTerminators == {"\n", "\r", "LS", "PS"}

LowerLetters == <<"a", "k", "v">>
UpperLetters == <<"A", "K", "V">>
Digits == <<"0", "1", "2">>

null == <<>>
Some(x) == <<x>>

\* String.prototype.toUpperCase / toLowerCase, character by character.
ToUpperChar(c) ==
    IF \E i \in 1..Len(LowerLetters) : LowerLetters[i] = c
    THEN UpperLetters[CHOOSE i \in 1..Len(LowerLetters) : LowerLetters[i] = c]
    ELSE c

ToLowerChar(c) ==
    IF \E i \in 1..Len(UpperLetters) : UpperLetters[i] = c
    THEN LowerLetters[CHOOSE i \in 1..Len(UpperLetters) : UpperLetters[i] = c]
    ELSE c

toUpperCase(s) == [i \in 1..Len(s) |-> ToUpperChar(s[i])]
toLowerCase(s) == [i \in 1..Len(s) |-> ToLowerChar(s[i])]

\* ------------------------------------------------------------------------
\* The regular expressions
\* ------------------------------------------------------------------------

\* \s* from position i of s, greedy: the first position at or after i that
\* holds no whitespace (Len(s)+1 when there is none).
RECURSIVE SkipWs(_, _)
SkipWs(s, i) ==
    IF i <= Len(s) /\ s[i] \in WS THEN SkipWs(s, i + 1) ELSE i

\* v.replace(/^\s+/, '')
StripLeading(s) == SubSeq(s, SkipWs(s, 1), Len(s))

\* A COMMENT that knows ";" only.
MatchCOMMENT_SemicolonOnly(s) ==
    LET i == SkipWs(s, 1)
    IN  i <= Len(s) /\ s[i] = ";"

\* COMMENT = /^\s*[;#]/ : line.match(COMMENT) is truthy.
MatchCOMMENT(s) ==
    LET i == SkipWs(s, 1)
    IN  i <= Len(s) /\ s[i] \in {";", "#"}

\* [^\]]+ from position i, greedy: the first position at or after i that
\* holds "]" (Len(s)+1 when there is none).
RECURSIVE SkipNotClose(_, _)
SkipNotClose(s, i) ==
    IF i <= Len(s) /\ s[i] /= "]" THEN SkipNotClose(s, i + 1) ELSE i

\* SECTION = /\s*\[([^\]]+)]/ tried with the match starting at position p:
\* Some(group 1) or null. Giving back characters of \s* or of [^\]]+ never
\* helps, as the next thing to match is a character neither of them takes.
SectionAt(s, p) ==
    LET q == SkipWs(s, p)
        r == SkipNotClose(s, q + 1)
    IN  IF q <= Len(s) /\ s[q] = "[" /\ r > q + 1 /\ r <= Len(s)
        THEN Some(SubSeq(s, q + 1, r - 1))
        ELSE null

\* SECTION.exec(line): the expression is not anchored, so the match may
\* start at any position; the leftmost start wins.
RECURSIVE SectionFrom(_, _)
SectionFrom(s, p) ==
    IF p > Len(s) + 1 THEN null
    ELSE LET m == SectionAt(s, p)
         IN  IF m /= null THEN m ELSE SectionFrom(s, p + 1)

ExecSECTION(s) == SectionFrom(s, 1)

\* (.*?) of KEY, lazy: group 1 is s[i0..e-1]; it grows one character at a
\* time until \s*[=:] matches behind it. Some(<<group 1, group 2>>) or null.
RECURSIVE KeyLazy(_, _, _)
KeyLazy(s, i0, e) ==
    LET d == SkipWs(s, e)
    IN  IF d <= Len(s) /\ s[d] \in {"=", ":"}
        THEN Some(<<SubSeq(s, i0, e - 1), SubSeq(s, SkipWs(s, d + 1), Len(s))>>)
        ELSE IF e <= Len(s) /\ s[e] \notin LineTerminators
        THEN KeyLazy(s, i0, e + 1)
        ELSE null

\* KEY = /\s*(.*?)\s*[=:]\s*(.*)/ tried with the match starting at p.
KeyAt(s, p) == KeyLazy(s, SkipWs(s, p), SkipWs(s, p))

RECURSIVE KeyFrom(_, _)
KeyFrom(s, p) ==
    IF p > Len(s) + 1 THEN null
    ELSE LET m == KeyAt(s, p)
         IN  IF m /= null THEN m ELSE KeyFrom(s, p + 1)

\* KEY.exec(line)
ExecKEY(s) == KeyFrom(s, 1)

\* A LINE_BOUNDARY without the alternative \r\n: CR and LF end a line each.
BoundaryAt_NoCRLF(t, i) ==
    IF i > Len(t) THEN 0
    ELSE IF t[i] \in {"\n", "\r", "NEL", "LS", "PS"} THEN 1
    ELSE 0

\* LINE_BOUNDARY = /\r\n|[\n\r\u0085\u2028\u2029]/g : the length of the terminator
\* at position i of the text, 0 when there is none. "NEL", "LS" and "PS"
\* stand for the characters U+0085, U+2028 and U+2029.
BoundaryAt(t, i) ==
    IF i > Len(t) THEN 0
    ELSE IF t[i] = "\r" /\ i < Len(t) /\ t[i + 1] = "\n" THEN 2
    ELSE IF t[i] \in {"\n", "\r", "NEL", "LS", "PS"} THEN 1
    ELSE 0

\* text.split(LINE_BOUNDARY): from position i, with cur the line collected
\* so far and acc the lines already closed.
RECURSIVE SplitFrom(_, _, _, _)
SplitFrom(t, i, cur, acc) ==
    IF i > Len(t) THEN Append(acc, cur)
    ELSE IF BoundaryAt(t, i) > 0
    THEN SplitFrom(t, i + BoundaryAt(t, i), <<>>, Append(acc, cur))
    ELSE SplitFrom(t, i + 1, Append(cur, t[i]), acc)

split(t) == SplitFrom(t, 1, <<>>, <<>>)

\* ------------------------------------------------------------------------
\* Objects: the store and its sections
\* ------------------------------------------------------------------------

\* An object is the sequence of its own properties [k |-> name, v |-> value]
\* in enumeration order: the names that are array indices first, in
\* ascending numeric order, then the other names in insertion order.
ObjHas(o, k) == \E i \in 1..Len(o) : o[i].k = k

ObjIndex(o, k) == CHOOSE i \in 1..Len(o) : o[i].k = k

ObjGet(o, k) == o[ObjIndex(o, k)].v

ObjKeys(o) == [i \in 1..Len(o) |-> o[i].k]

DigitValue(c) == (CHOOSE i \in 1..Len(Digits) : Digits[i] = c) - 1

IsDigit(c) == \E i \in 1..Len(Digits) : Digits[i] = c

\* A canonical array index: "0", or digits with no leading zero.
IsArrayIndex(k) ==
    /\ Len(k) >= 1
    /\ \A i \in 1..Len(k) : IsDigit(k[i])
    /\ (k[1] = "0" => Len(k) = 1)

RECURSIVE NumericValue(_)
NumericValue(k) ==
    IF k = <<>> THEN 0
    ELSE 10 * NumericValue(SubSeq(k, 1, Len(k) - 1)) + DigitValue(k[Len(k)])

\* Where a new property named k goes in the enumeration order of o.
InsertPosition(o, k) ==
    IF IsArrayIndex(k)
    THEN 1 + Cardinality({i \in 1..Len(o) :
                 IsArrayIndex(o[i].k) /\ NumericValue(o[i].k) < NumericValue(k)})
    ELSE Len(o) + 1

\* o[k] = v : an existing property keeps its place.
ObjPut(o, k, v) ==
    IF ObjHas(o, k)
    THEN [o EXCEPT ![ObjIndex(o, k)].v = v]
    ELSE LET p == InsertPosition(o, k)
         IN  SubSeq(o, 1, p - 1) \o <<[k |-> k, v |-> v]>> \o SubSeq(o, p, Len(o))

\* delete o[k]
ObjDelete(o, k) ==
    IF ObjHas(o, k)
    THEN LET p == ObjIndex(o, k)
         IN  SubSeq(o, 1, p - 1) \o SubSeq(o, p + 1, Len(o))
    ELSE o

\* ------------------------------------------------------------------------
\* parseLines
\* ------------------------------------------------------------------------

\* A transformKey that forgets 'lower'.
transformKey_UpperOnly(tr, key) == IF tr = "upper" THEN toUpperCase(key) ELSE key

\* transformKey of parseLines, under this._transform.
transformKey(tr, key) ==
    IF tr = "upper" THEN toUpperCase(key)
    ELSE IF tr = "lower" THEN toLowerCase(key)
    ELSE key

\* file || ''
OrEmpty(f) == IF f = null THEN "" ELSE f

\* throw new errors.<name>(<args>)
Thrown(name, args) == Some([name |-> name, args |-> args])

\* A parser that asks the store, not the call, whether a section is open.
NoCurrentSection_EmptyStore(st) == st.sections = <<>>

\* !curSec : no header has been seen in this call.
NoCurrentSection(st) == st.curSec = null

\* A header that keeps the section the store already holds under the name.
NewSection_KeepExisting(secs, name) ==
    IF ObjHas(secs, name) THEN secs ELSE ObjPut(secs, name, <<>>)

\* curSec = {}; this._sections[name] = curSec : a new, empty section object
\* takes the place of whatever the store held under the name.
NewSection(secs, name) == ObjPut(secs, name, <<>>)

\* One turn of lines.forEach: st is [sections, curSec, thrown, calls], line
\* is the line with its leading whitespace already removed. curSec is null or
\* Some(the name under which the current section object lies in the store):
\* within one call the object is reachable from the store under that name
\* until a header of the same name replaces both.
ParseLine(st, tr, cb, f, lineNumber, line) ==
    LET hdr == ExecSECTION(line)
        res == ExecKEY(line)
    IN  IF line = <<>> \/ MatchCOMMENT(line) THEN st
        ELSE IF hdr /= null
        THEN LET name == transformKey(tr, hdr[1])
             IN  [st EXCEPT !.curSec = Some(name), !.sections = NewSection(@, name)]
        ELSE IF NoCurrentSection(st)
        THEN [st EXCEPT !.thrown =
                 Thrown("MissingSectionHeaderError", <<f, lineNumber, line>>)]
        ELSE IF res /= null /\ res[1][1] /= <<>> /\ line[1] /= "="
        THEN LET sec == ObjGet(st.sections, st.curSec[1])
             IN  [st EXCEPT !.sections =
                     ObjPut(@, st.curSec[1],
                            ObjPut(sec, transformKey(tr, res[1][1]), res[1][2]))]
        ELSE IF cb
        THEN [st EXCEPT !.calls =
                 Append(@, [file |-> f, lineNumber |-> lineNumber, line |-> line])]
        ELSE [st EXCEPT !.thrown =
                 Thrown("ParseError", <<OrEmpty(f), lineNumber, line>>)]

\* lines.forEach from index i on (i counts from 1; lineNumber is i - 1): a
\* throw ends the loop.
RECURSIVE ForEachLine(_, _, _, _, _, _)
ForEachLine(st, tr, cb, f, lines, i) ==
    IF i > Len(lines) \/ st.thrown /= null THEN st
    ELSE ForEachLine(ParseLine(st, tr, cb, f, i - 1, StripLeading(lines[i])),
                     tr, cb, f, lines, i + 1)

\* A parseLines that puts the store back as it was when a line throws.
parseLines_RollBack(secs, tr, cb, f, lines) ==
    LET r == ForEachLine([sections |-> secs, curSec |-> null, thrown |-> null,
                          calls |-> <<>>], tr, cb, f, lines, 1)
    IN  IF r.thrown = null THEN r ELSE [r EXCEPT !.sections = secs]

\* A parseLines that starts with the last section of the store open, as if
\* the current section outlived the call.
parseLines_OpenLastSection(secs, tr, cb, f, lines) ==
    ForEachLine([sections |-> secs,
                 curSec |-> IF secs = <<>> THEN null ELSE Some(secs[Len(secs)].k),
                 thrown |-> null, calls |-> <<>>],
                tr, cb, f, lines, 1)

\* parseLines.call(this, lines): the store it leaves, what it throws (null
\* when it returns) and the onInvalidLine calls it makes, in order.
parseLines(secs, tr, cb, f, lines) ==
    ForEachLine([sections |-> secs, curSec |-> null, thrown |-> null, calls |-> <<>>],
                tr, cb, f, lines, 1)

\* ------------------------------------------------------------------------
\* getSectionsAsString
\* ------------------------------------------------------------------------

RECURSIVE KeysAsString(_, _)
KeysAsString(keys, i) ==
    IF i > Len(keys) THEN <<>>
    ELSE keys[i].k \o <<"=">> \o keys[i].v \o <<"\n">> \o KeysAsString(keys, i + 1)

\* A serializer that leaves out the sections that hold no key.
RECURSIVE SectionsAsString_SkipEmpty(_, _)
SectionsAsString_SkipEmpty(secs, i) ==
    IF i > Len(secs) THEN <<>>
    ELSE IF secs[i].v = <<>> THEN SectionsAsString_SkipEmpty(secs, i + 1)
    ELSE <<"[">> \o secs[i].k \o <<"]", "\n">> \o KeysAsString(secs[i].v, 1)
         \o <<"\n">> \o SectionsAsString_SkipEmpty(secs, i + 1)

\* for(section in this._sections) of getSectionsAsString, from the i-th
\* section on.
RECURSIVE SectionsAsString(_, _)
SectionsAsString(secs, i) ==
    IF i > Len(secs) THEN <<>>
    ELSE <<"[">> \o secs[i].k \o <<"]", "\n">> \o KeysAsString(secs[i].v, 1)
         \o <<"\n">> \o SectionsAsString(secs, i + 1)

getSectionsAsString(secs) == SectionsAsString(secs, 1)

\* ------------------------------------------------------------------------
\* The accessors of the store
\* ------------------------------------------------------------------------

\* The values a call returns: undefined, a string, a number, NaN, a boolean,
\* an array of names, a function.
undefined == [t |-> "undefined"]
JsString(s) == [t |-> "string", v |-> s]
JsNumber(n) == [t |-> "number", v |-> n]
NaN == [t |-> "NaN"]
JsBoolean(b) == [t |-> "boolean", v |-> b]
JsArray(a) == [t |-> "array", v |-> a]
JsFunction == [t |-> "function"]

\* What a call does: what it throws (null when it returns) and what it
\* returns.
Returns(v) == [thrown |-> null, result |-> v]
Throws(name, args) == [thrown |-> Thrown(name, args), result |-> undefined]

\* The store and its sections are made by {}: the properties they do not
\* hold themselves they inherit from Object.prototype, whose properties
\* (constructor, toString, valueOf, hasOwnProperty, ...) are functions that
\* hold no enumerable property. The model knows one of these names; it
\* leaves the accessor __proto__ out.
ProtoNames == { <<"c", "o", "n", "s", "t", "r", "u", "c", "t", "o", "r">> }

\* o[k]: the value of a property o holds ("own"), a function for one it
\* inherits ("inherited"), undefined otherwise ("none").
ObjRead(o, k) ==
    IF ObjHas(o, k) THEN [kind |-> "own", v |-> ObjGet(o, k)]
    ELSE IF k \in ProtoNames THEN [kind |-> "inherited", v |-> <<>>]
    ELSE [kind |-> "none", v |-> <<>>]

\* ConfigParser.prototype.hasSection
hasSection(secs, section) == ObjHas(secs, section)

\* ConfigParser.prototype.keys: Object.keys(undefined) throws a TypeError,
\* which the catch turns into NoSectionError; Object.keys of an inherited
\* function is the empty array.
keys(secs, section) ==
    LET sec == ObjRead(secs, section)
    IN  IF sec.kind = "none" THEN Throws("NoSectionError", <<section>>)
        ELSE IF sec.kind = "inherited" THEN Returns(JsArray(<<>>))
        ELSE Returns(JsArray(ObjKeys(sec.v)))

\* parseInt(string, radix), for a radix of at most ten: the value of the
\* longest prefix of digits of the radix after the leading whitespace, the
\* digits being s[i..], acc the value so far, n the number of digits taken.
RECURSIVE ParseDigits(_, _, _, _, _)
ParseDigits(s, i, radix, acc, n) ==
    IF i <= Len(s) /\ IsDigit(s[i]) /\ DigitValue(s[i]) < radix
    THEN ParseDigits(s, i + 1, radix, acc * radix + DigitValue(s[i]), n + 1)
    ELSE [value |-> acc, digits |-> n, next |-> i]

\* parseInt(v, radix) where v is what ObjRead gives: undefined becomes the
\* string "undefined" and a function its source text, which start with no
\* digit.
parseInt(v, radix) ==
    IF v.kind /= "own" THEN NaN
    ELSE LET s == v.v
             i == SkipWs(s, 1)
             neg == i <= Len(s) /\ s[i] = "-"
             j == IF i <= Len(s) /\ s[i] \in {"-", "+"} THEN i + 1 ELSE i
             d == ParseDigits(s, j, radix, 0, 0)
         IN  IF d.digits = 0 THEN NaN
             ELSE JsNumber(IF neg THEN 0 - d.value ELSE d.value)

\* parseFloat(v): the decimal literal at the start of the string, digits
\* with an optional fraction; the number is num / 10^scale. The model's
\* strings hold no exponent and no "Infinity".
parseFloat(v) ==
    IF v.kind /= "own" THEN NaN
    ELSE LET s == v.v
             i == SkipWs(s, 1)
             neg == i <= Len(s) /\ s[i] = "-"
             j == IF i <= Len(s) /\ s[i] \in {"-", "+"} THEN i + 1 ELSE i
             d == ParseDigits(s, j, 10, 0, 0)
             f == IF d.next <= Len(s) /\ s[d.next] = "."
                  THEN ParseDigits(s, d.next + 1, 10, d.value, 0)
                  ELSE [value |-> d.value, digits |-> 0, next |-> d.next]
         IN  IF d.digits + f.digits = 0 THEN NaN
             ELSE JsNumber([num |-> IF neg THEN 0 - f.value ELSE f.value,
                            scale |-> f.digits])

\* A getInt that parses before it looks for the section.
getInt_NaNForMissing(secs, section, key, radix) ==
    IF ObjHas(secs, section)
    THEN Returns(parseInt(ObjRead(ObjGet(secs, section), key),
                          IF radix = 0 THEN 10 ELSE radix))
    ELSE Returns(NaN)

\* ConfigParser.prototype.getInt; radix 0 stands for a radix not given.
getInt(secs, section, key, radix) ==
    IF ObjHas(secs, section)
    THEN Returns(parseInt(ObjRead(ObjGet(secs, section), key),
                          IF radix = 0 THEN 10 ELSE radix))
    ELSE Returns(undefined)

\* ConfigParser.prototype.getFloat
getFloat(secs, section, key) ==
    IF ObjHas(secs, section)
    THEN Returns(parseFloat(ObjRead(ObjGet(secs, section), key)))
    ELSE Returns(undefined)

\* ------------------------------------------------------------------------
\* The interpolation resolver and get
\* ------------------------------------------------------------------------

\* The section the resolver falls back to.
DefaultSection == <<"D", "E", "F", "A", "U", "L", "T">>

\* The position of the ")" that closes the placeholder "%(name)s" starting
\* at position i of v, 0 when no placeholder starts there: the name is one
\* or more characters other than ")".
PlaceholderEnd(v, i) ==
    IF i + 1 <= Len(v) /\ v[i] = "%" /\ v[i + 1] = "("
    THEN LET closes == {j \in (i + 3)..(Len(v) - 1) :
                           /\ v[j] = ")"
                           /\ v[j + 1] = "s"
                           /\ \A m \in (i + 2)..(j - 1) : v[m] /= ")"}
         IN  IF closes = {} THEN 0 ELSE CHOOSE j \in closes : TRUE
    ELSE 0

\* The raw value the resolver finds for a key: in the originating section
\* first, then in the default section; null when neither holds it.
LookupRaw(secs, section, key) ==
    IF ObjHas(secs, section) /\ ObjHas(ObjGet(secs, section), key)
    THEN Some(ObjGet(ObjGet(secs, section), key))
    ELSE IF ObjHas(secs, DefaultSection) /\ ObjHas(ObjGet(secs, DefaultSection), key)
    THEN Some(ObjGet(ObjGet(secs, DefaultSection), key))
    ELSE null

\* The resolver: ExpandFrom expands the placeholders of v from position i
\* on, ExpandKey the value of a referenced key; chain holds the keys being
\* expanded. Each answers [err |-> whether it fails, v |-> the text].
RECURSIVE ExpandFrom(_, _, _, _, _)
RECURSIVE ExpandKey(_, _, _, _)
ExpandFrom(secs, section, v, i, chain) ==
    IF i > Len(v) THEN [err |-> FALSE, v |-> <<>>]
    ELSE LET j == PlaceholderEnd(v, i)
         IN  IF j = 0
             THEN LET rest == ExpandFrom(secs, section, v, i + 1, chain)
                  IN  [rest EXCEPT !.v = <<v[i]>> \o @]
             ELSE LET ref == ExpandKey(secs, section, SubSeq(v, i + 2, j - 1), chain)
                  IN  IF ref.err THEN ref
                      ELSE LET rest == ExpandFrom(secs, section, v, j + 2, chain)
                           IN  [rest EXCEPT !.v = ref.v \o @]

ExpandKey(secs, section, key, chain) ==
    LET raw == LookupRaw(secs, section, key)
    IN  IF key \in chain \/ raw = null THEN [err |-> TRUE, v |-> <<>>]
        ELSE ExpandFrom(secs, section, raw[1], 1, chain \cup {key})

\* interpolation.interpolate(parser, section, key), for a section the store
\* holds: the expanded value of the key, undefined for a key the section
\* does not hold, InterpolationError when a reference is missing or cyclic.
interpolate(secs, section, key) ==
    IF ~ObjHas(ObjGet(secs, section), key) THEN Returns(undefined)
    ELSE LET r == ExpandFrom(secs, section, ObjGet(ObjGet(secs, section), key), 1, {key})
         IN  IF r.err THEN Throws("InterpolationError", <<section, key>>)
             ELSE Returns(JsString(r.v))

\* The value of a property read, as a call returns it.
JsValue(v) ==
    IF v.kind = "none" THEN undefined
    ELSE IF v.kind = "inherited" THEN JsFunction
    ELSE JsString(v.v)

\* A get that takes the raw value in either mode.
get_AlwaysRaw(secs, section, key, raw) ==
    IF ObjHas(secs, section)
    THEN Returns(JsValue(ObjRead(ObjGet(secs, section), key)))
    ELSE Returns(undefined)

\* ConfigParser.prototype.get
get(secs, section, key, raw) ==
    IF ObjHas(secs, section)
    THEN IF raw
         THEN Returns(JsValue(ObjRead(ObjGet(secs, section), key)))
         ELSE interpolate(secs, section, key)
    ELSE Returns(undefined)

\* ------------------------------------------------------------------------
\* Inputs and bounds
\* ------------------------------------------------------------------------

\* The inputs of one run: the lines its reads load and the sections its
\* addSection calls name, together.
MaxInputs == 3

\* The length of the line that the line-by-line specification reads.
MaxLineLen == 5

Files == {<<"f", "1">>, <<"f", "2">>}

Transforms == {"none", "lower", "upper"}

\* The lines of the documents: headers, key/value lines with either
\* delimiter, a blank line, a comment and a line that is none of these.
DocLines ==
    { <<"[", "a", "]">>,
      <<" ", "[", "A", "]">>,
      <<"k", "=", "v">>,
      <<"K", " ", ":", " ", "V", " ">>,
      <<" ">>,
      <<";", "k", "=", "v">>,
      <<" ", "a">> }

SectionNames == {<<"a">>, <<"A">>}

\* The characters of the line of the line-by-line specification.
Alphabet == {"a", " ", "=", ":", "[", "]"}

\* What precedes that line in its document, and the file that holds it.
LinePrefixes == {<<>>, << <<"[", "a", "]">> >>}

LineFile == <<"f", "1">>

\* The documents of the specification of line terminators: at most
\* MaxTermLines lines of TermLines, with one of Terminators between two lines.
MaxTermLines == 3

TermLines == { <<"[", "a", "]">>, <<"k", "=", "v">>, <<>> }

Terminators ==
    { <<"\r", "\n">>, <<"\n">>, <<"\r">>, <<"NEL">>, <<"LS">>, <<"PS">> }

\* lines.join("\n"): the text of a file that holds these lines.
RECURSIVE JoinLines(_, _)
JoinLines(lines, i) ==
    IF i > Len(lines) THEN <<>>
    ELSE IF i = Len(lines) THEN lines[i]
    ELSE lines[i] \o <<"\n">> \o JoinLines(lines, i + 1)

DocText(lines) == JoinLines(lines, 1)

\* The calls of the specification of the store's API, MaxCalls in all (a
\* read counts for as many as its document has lines), and their arguments:
\* names made of a letter and names made of a digit, values with and
\* without placeholders.
MaxCalls == 4

SectionArgs == {<<"a">>, <<"1">>}

KeyArgs == {<<"k">>, <<"0">>}

\* The names the store is asked for: those above and an inherited one.
AskedSections == SectionArgs \cup ProtoNames

AskedKeys == KeyArgs \cup ProtoNames

ValueArgs ==
    { <<"1", "2">>,
      <<"%", "(", "0", ")", "s">>,
      <<"%", "(", "k", ")", "s">> }

Radixes == {0, 2}

StoreDocs ==
    { << <<"[", "a", "]">>, <<"k", "=", " ", "1", "2">> >>,
      << <<"[", "1", "]">>, <<"0", "=", "%", "(", "0", ")", "s">> >> }

\* The loads of the asynchronous specification, MaxAsync in all (a call of
\* readAsync counts for one, a read for as many as its document has lines),
\* and the documents the files hold when their bytes arrive: one that loads,
\* one with a line before any header, one with an invalid line between a
\* header and a key/value line, and one with another header.
MaxAsync == 3

AsyncDocs ==
    { << <<"[", "a", "]">>, <<"k", "=", "v">> >>,
      << <<"k", "=", "v">> >>,
      << <<"[", "a", "]">>, <<" ", "a">>, <<"K", " ", ":", " ", "V", " ">> >>,
      << <<"[", "A", "]">>, <<"K", " ", ":", " ", "V", " ">> >> }

\* The text of a file that holds these lines with terms[i] after line i.
RECURSIVE JoinWith(_, _, _)
JoinWith(lines, terms, i) ==
    IF i > Len(lines) THEN <<>>
    ELSE IF i = Len(lines) THEN lines[i]
    ELSE lines[i] \o terms[i] \o JoinWith(lines, terms, i + 1)

\* ------------------------------------------------------------------------
\* The parser instance
\* ------------------------------------------------------------------------

VARIABLES
    transform,      \* this._transform
    onInvalidLine,  \* whether this._onInvalidLine is a function
    sections,       \* this._sections
    file,           \* this._file
    pending,        \* the readAsync calls waiting for their bytes, per file
    last,           \* the last call: its arguments, the store before it, its outcome
    used            \* the number of inputs taken so far

vars == <<transform, onInvalidLine, sections, file, pending, last, used>>

\* No readAsync is waiting.
NoPending == [f \in Files |-> 0]

\* What a load remembers of the load that completed right before it.
NoPrev == [op |-> "none", lines |-> <<>>, before |-> <<>>, waiting |-> NoPending]

\* last.thrown is null or Some(the error thrown), last.calls the arguments
\* of the onInvalidLine calls in order, last.curSec the current section at
\* the end of parseLines, last.result what the call returns, last.fileAtParse
\* the value of this._file when parseLines ran, last.prev the load before,
\* last.text the content of the file read, last.waiting the readAsync calls
\* that were waiting for their bytes when the call completed.
NoCall ==
    [op |-> "new", file |-> null, lines |-> <<>>, section |-> null, key |-> null,
     value |-> null, raw |-> FALSE, radix |-> 0,
     before |-> <<>>, thrown |-> null, calls |-> <<>>, curSec |-> null,
     result |-> undefined, fileAtParse |-> null, prev |-> NoPrev, text |-> <<>>,
     waiting |-> NoPending]

\* new ConfigParser(options)
Init ==
    /\ transform \in Transforms
    /\ onInvalidLine \in BOOLEAN
    /\ sections = <<>>
    /\ file = null
    /\ pending = NoPending
    /\ last = NoCall
    /\ used = 0

\* ConfigParser.prototype.read, with text the content of the file.
Read(f, text) ==
    LET lines == split(text)
        res == parseLines(sections, transform, onInvalidLine, f, lines)
    IN  /\ file' = f
        /\ sections' = res.sections
        /\ last' = [NoCall EXCEPT !.op = "read", !.file = f, !.lines = lines,
                                  !.before = sections, !.thrown = res.thrown,
                                  !.calls = res.calls, !.curSec = res.curSec,
                                  !.fileAtParse = f, !.text = text]
        /\ used' = used + Len(lines)
        /\ UNCHANGED <<transform, onInvalidLine, pending>>

\* An addSection that does not look for the section first.
AddSection_Overwrite(section) ==
    /\ sections' = ObjPut(sections, section, <<>>)
    /\ last' = [NoCall EXCEPT !.op = "addSection", !.section = section,
                              !.before = sections]
    /\ used' = used + 1
    /\ UNCHANGED <<transform, onInvalidLine, file, pending>>

\* ConfigParser.prototype.addSection
AddSection(section) ==
    /\ IF ObjHas(sections, section)
       THEN /\ last' = [NoCall EXCEPT !.op = "addSection", !.section = section,
                                      !.before = sections,
                                      !.thrown = Thrown("DuplicateSectionError", <<section>>)]
            /\ UNCHANGED sections
       ELSE /\ sections' = ObjPut(sections, section, <<>>)
            /\ last' = [NoCall EXCEPT !.op = "addSection", !.section = section,
                                      !.before = sections]
    /\ used' = used + 1
    /\ UNCHANGED <<transform, onInvalidLine, file, pending>>

\* A call of the API that is no load: its arguments, what it throws and
\* returns, and the store it leaves.
Call(rec, out, secs) ==
    /\ sections' = secs
    /\ last' = [rec EXCEPT !.before = sections, !.thrown = out.thrown,
                           !.result = out.result]
    /\ used' = used + 1
    /\ UNCHANGED <<transform, onInvalidLine, file, pending>>

\* ConfigParser.prototype.hasSection
HasSection(section) ==
    Call([NoCall EXCEPT !.op = "hasSection", !.section = section],
         Returns(JsBoolean(hasSection(sections, section))), sections)

\* ConfigParser.prototype.keys
Keys(section) ==
    Call([NoCall EXCEPT !.op = "keys", !.section = section],
         keys(sections, section), sections)

\* ConfigParser.prototype.get
Get(section, key, raw) ==
    Call([NoCall EXCEPT !.op = "get", !.section = section, !.key = key, !.raw = raw],
         get(sections, section, key, raw), sections)

\* ConfigParser.prototype.getInt
GetInt(section, key, radix) ==
    Call([NoCall EXCEPT !.op = "getInt", !.section = section, !.key = key,
                        !.radix = radix],
         getInt(sections, section, key, radix), sections)

\* ConfigParser.prototype.getFloat
GetFloat(section, key) ==
    Call([NoCall EXCEPT !.op = "getFloat", !.section = section, !.key = key],
         getFloat(sections, section, key), sections)

\* A set that makes the section when the store does not hold it.
Set_CreatesSection(section, key, value) ==
    Call([NoCall EXCEPT !.op = "set", !.section = section, !.key = key, !.value = value],
         Returns(undefined),
         ObjPut(sections, section,
                ObjPut(IF ObjHas(sections, section) THEN ObjGet(sections, section)
                       ELSE <<>>, key, value)))

\* ConfigParser.prototype.set
Set(section, key, value) ==
    Call([NoCall EXCEPT !.op = "set", !.section = section, !.key = key, !.value = value],
         Returns(undefined),
         IF ObjHas(sections, section)
         THEN ObjPut(sections, section, ObjPut(ObjGet(sections, section), key, value))
         ELSE sections)

\* ConfigParser.prototype.removeKey
RemoveKey(section, key) ==
    LET found == ObjHas(sections, section) /\ ObjHas(ObjGet(sections, section), key)
    IN  Call([NoCall EXCEPT !.op = "removeKey", !.section = section, !.key = key],
             Returns(JsBoolean(found)),
             IF found
             THEN ObjPut(sections, section, ObjDelete(ObjGet(sections, section), key))
             ELSE sections)

\* ConfigParser.prototype.removeSection
RemoveSection(section) ==
    Call([NoCall EXCEPT !.op = "removeSection", !.section = section],
         Returns(JsBoolean(ObjHas(sections, section))),
         IF ObjHas(sections, section) THEN ObjDelete(sections, section) ELSE sections)

\* ConfigParser.prototype.write and writeAsync: both make the text when they
\* are called; last.result is the text handed to the file system.
Write(op) ==
    Call([NoCall EXCEPT !.op = op],
         Returns(JsString(getSectionsAsString(sections))), sections)

\* ConfigParser.prototype.readAsync up to its await: this._file is set and
\* the call waits for the bytes of the file.
ReadAsyncStart(f) ==
    /\ used < MaxAsync
    /\ file' = f
    /\ pending' = [pending EXCEPT ![f] = @ + 1]
    /\ used' = used + 1
    /\ UNCHANGED <<transform, onInvalidLine, sections, last>>

\* ConfigParser.prototype.readAsync after its await: text, the content of
\* the file, has arrived; it is split and parseLines runs to its end in one
\* turn of the event loop, reading this._file as it is now.
ReadAsyncResume(f, text) ==
    LET lines == split(text)
        res == parseLines(sections, transform, onInvalidLine, file, lines)
    IN  /\ pending[f] > 0
        /\ pending' = [pending EXCEPT ![f] = @ - 1]
        /\ sections' = res.sections
        /\ last' = [NoCall EXCEPT !.op = "readAsync", !.file = f, !.lines = lines,
                                  !.before = sections, !.thrown = res.thrown,
                                  !.calls = res.calls, !.curSec = res.curSec,
                                  !.fileAtParse = file, !.text = text,
                                  !.waiting = pending',
                                  !.prev = [op |-> last.op, lines |-> last.lines,
                                            before |-> last.before,
                                            waiting |-> last.waiting]]
        /\ UNCHANGED <<transform, onInvalidLine, file, used>>

\* The calls of a run, MaxInputs inputs in all: reads of documents and calls
\* of addSection.
ReadDocument ==
    \E f \in Files : \E n \in 1..(MaxInputs - used) : \E d \in [1..n -> DocLines] :
        Read(f, DocText(d))

AddSomeSection == used < MaxInputs /\ \E name \in SectionNames : AddSection(name)

Next == ReadDocument \/ AddSomeSection

Spec == Init /\ [][Next]_vars

\* The line-by-line specification: a new parser reads one document, made of
\* a prefix and one line of at most MaxLineLen characters of Alphabet.
InitLine == Init /\ transform = "none"

ReadLine ==
    /\ last.op = "new"
    /\ \E pre \in LinePrefixes : \E n \in 0..MaxLineLen : \E l \in [1..n -> Alphabet] :
            Read(LineFile, DocText(Append(pre, l)))

NextLine == ReadLine

SpecLine == InitLine /\ [][NextLine]_vars

\* The specification of the store's API: a parser without transform loads
\* documents and is asked and changed through its methods.
ReadStoreDoc ==
    \E d \in StoreDocs : used + Len(d) <= MaxCalls /\ Read(LineFile, DocText(d))

AddStoreSection == used < MaxCalls /\ \E s \in SectionArgs : AddSection(s)

AskStore ==
    /\ used < MaxCalls
    /\ \E s \in AskedSections :
          \/ HasSection(s)
          \/ Keys(s)
          \/ \E k \in AskedKeys :
                \/ \E raw \in BOOLEAN : Get(s, k, raw)
                \/ \E radix \in Radixes : GetInt(s, k, radix)
                \/ GetFloat(s, k)

ChangeStore ==
    /\ used < MaxCalls
    /\ \E s \in SectionArgs :
          \/ RemoveSection(s)
          \/ \E k \in KeyArgs :
                \/ RemoveKey(s, k)
                \/ \E v \in ValueArgs : Set(s, k, v)

WriteStore == used < MaxCalls /\ \E op \in {"write", "writeAsync"} : Write(op)

NextStore == ReadStoreDoc \/ AddStoreSection \/ AskStore \/ ChangeStore \/ WriteStore

SpecStore == InitLine /\ [][NextStore]_vars

\* The specification of line terminators: a new parser reads one document
\* whose lines end with any of the six terminators.
ReadTerminated ==
    /\ last.op = "new"
    /\ \E n \in 1..MaxTermLines : \E d \in [1..n -> TermLines] :
       \E ts \in [1..(n - 1) -> Terminators] :
            Read(LineFile, JoinWith(d, ts, 1))

NextTerm == ReadTerminated

SpecTerm == InitLine /\ [][NextTerm]_vars

\* The asynchronous specification: MaxAsync inputs in all, each a readAsync
\* that waits for its bytes while other loads start and complete, or a line
\* of a document that read loads.
StartReadAsync == \E f \in Files : ReadAsyncStart(f)

ResumeReadAsync == \E f \in Files : \E d \in AsyncDocs : ReadAsyncResume(f, DocText(d))

ReadSync ==
    \E f \in Files : \E d \in AsyncDocs :
        /\ used + Len(d) <= MaxAsync
        /\ Read(f, DocText(d))

NextAsync == StartReadAsync \/ ResumeReadAsync \/ ReadSync

SpecAsync == Init /\ [][NextAsync]_vars

\* ------------------------------------------------------------------------
\* The shapes of a line, as the specification words them
\* ------------------------------------------------------------------------

\* Empty once its leading whitespace is gone.
BlankLine(l) == \A i \in 1..Len(l) : l[i] \in WS

\* The first character that is no whitespace is ";" or "#".
CommentLine(l) ==
    \E i \in 1..Len(l) : l[i] \in {";", "#"} /\ \A j \in 1..(i - 1) : l[j] \in WS

\* l[i..j] is "[", one or more characters other than "]", and "]".
BracketedAt(l, i, j) ==
    /\ i + 1 < j
    /\ l[i] = "["
    /\ l[j] = "]"
    /\ \A m \in (i + 1)..(j - 1) : l[m] /= "]"

Bracketed(l) == \E i \in 1..Len(l) : \E j \in 1..Len(l) : BracketedAt(l, i, j)

\* A line the parser takes as a header: it holds a bracketed part; the name
\* is the inside of the leftmost one.
HeaderLine(l) == ~BlankLine(l) /\ ~CommentLine(l) /\ Bracketed(l)

HeaderName(l) ==
    LET i == CHOOSE a \in 1..Len(l) :
                 /\ \E j \in 1..Len(l) : BracketedAt(l, a, j)
                 /\ \A b \in 1..(a - 1) : \A j \in 1..Len(l) : ~BracketedAt(l, b, j)
        j == CHOOSE c \in 1..Len(l) : BracketedAt(l, i, c)
    IN  SubSeq(l, i + 1, j - 1)

\* A line of data: neither blank, nor a comment, nor a header.
DataLine(l) == ~BlankLine(l) /\ ~CommentLine(l) /\ ~Bracketed(l)

\* The first delimiter of the line is at d, and a key precedes it.
DelimiterAt(l, d) ==
    /\ l[d] \in {"=", ":"}
    /\ \A j \in 1..(d - 1) : l[j] \notin {"=", ":"}

KeyValueLine(l) ==
    /\ DataLine(l)
    /\ \E d \in 1..Len(l) : DelimiterAt(l, d) /\ \E j \in 1..(d - 1) : l[j] \notin WS

\* A data line that is not key/value shaped.
InvalidLine(l) == DataLine(l) /\ ~KeyValueLine(l)

\* l without the whitespace at its ends / at its start.
Trimmed(l) ==
    IF BlankLine(l) THEN <<>>
    ELSE LET a == CHOOSE i \in 1..Len(l) : l[i] \notin WS /\ \A j \in 1..(i - 1) : l[j] \in WS
             b == CHOOSE i \in 1..Len(l) : l[i] \notin WS /\ \A j \in (i + 1)..Len(l) : l[j] \in WS
         IN  SubSeq(l, a, b)

LeftTrimmed(l) ==
    IF BlankLine(l) THEN <<>>
    ELSE LET a == CHOOSE i \in 1..Len(l) : l[i] \notin WS /\ \A j \in 1..(i - 1) : l[j] \in WS
         IN  SubSeq(l, a, Len(l))

\* The key and the value of a key/value line: what precedes the first
\* delimiter, trimmed, and what follows it, without its leading whitespace.
KeyOf(l) == Trimmed(SubSeq(l, 1, (CHOOSE d \in 1..Len(l) : DelimiterAt(l, d)) - 1))

ValueOf(l) == LeftTrimmed(SubSeq(l, (CHOOSE d \in 1..Len(l) : DelimiterAt(l, d)) + 1, Len(l)))

\* The name under which the configured transform stores a name.
Cased(name) ==
    IF transform = "lower" THEN toLowerCase(name)
    ELSE IF transform = "upper" THEN toUpperCase(name)
    ELSE name

ThrownName(t) == IF t = null THEN "none" ELSE t[1].name

\* The lines of the last read that come before its first header.
BeforeFirstHeader(lines) ==
    {i \in 1..Len(lines) : \A j \in 1..i : ~HeaderLine(lines[j])}

Min(S) == CHOOSE x \in S : \A y \in S : x <= y
Max(S) == CHOOSE x \in S : \A y \in S : x >= y

\* ------------------------------------------------------------------------
\* C1
\* ------------------------------------------------------------------------

\* The data lines of the last read that precede its first header.
C1_Orphans == {i \in BeforeFirstHeader(last.lines) : DataLine(last.lines[i])}

C2_Invalid == {i \in 1..Len(last.lines) : InvalidLine(last.lines[i])}

\* The i-th smallest element of a set of numbers.
RECURSIVE Sorted(_)
Sorted(S) == IF S = {} THEN <<>> ELSE <<Min(S)>> \o Sorted(S \ {Min(S)})

\* What the callback is to receive for line i of the last read: the file,
\* the number of the line and the content of the line.
C2_Call(i) == [file |-> last.file, lineNumber |-> i - 1, line |-> last.lines[i]]

\* The key/value lines of the last read that no header follows.
C2_TrailingKeyValue ==
    {i \in 1..Len(last.lines) :
        /\ KeyValueLine(last.lines[i])
        /\ \A j \in (i + 1)..Len(last.lines) : ~HeaderLine(last.lines[j])}

\* C2: in a read whose data lines all follow a header, an invalid line
\* (neither blank, comment, header nor key/value shaped) makes the read fail
\* with ParseError at that line when no callback is configured; with a
\* callback, each invalid line is passed to it once, in line order, with the
\* file, the number of the line and the content of the line, nothing is
\* thrown, and the key/value lines that follow are stored.
C2_InvalidLineHandling ==
    (last.op = "read" /\ C1_Orphans = {} /\ C2_Invalid /= {}) =>
        IF onInvalidLine
        THEN /\ last.thrown = null
             /\ last.calls = [n \in 1..Cardinality(C2_Invalid) |-> C2_Call(Sorted(C2_Invalid)[n])]
             /\ \A i \in C2_TrailingKeyValue :
                   /\ ObjHas(ObjGet(sections, last.curSec[1]), Cased(KeyOf(last.lines[i])))
             /\ \A i \in C2_TrailingKeyValue :
                   i = Max(C2_TrailingKeyValue) =>
                       ObjGet(ObjGet(sections, last.curSec[1]), Cased(KeyOf(last.lines[i])))
                           = ValueOf(last.lines[i])
        ELSE /\ ThrownName(last.thrown) = "ParseError"
             /\ last.thrown[1].args[2] = Min(C2_Invalid) - 1

\* ------------------------------------------------------------------------
\* C3
\* ------------------------------------------------------------------------

\* The document is the header [a] and one more line.
OneLineInSection ==
    /\ last.op = "read"
    /\ Len(last.lines) = 2
    /\ last.lines[1] = <<"[", "a", "]">>

\* C3, read in favour of the code: for every line k=v in which k is made of
\* letters and v does not start with whitespace (v is any other string of
\* Alphabet, brackets and delimiters included), parsing the header [a] and
\* that line stores v, exactly, under a.k.
C3_ValueStoredExactly ==
    OneLineInSection =>
        \A p \in 2..Len(last.lines[2]) :
            LET l == last.lines[2]
                k == SubSeq(l, 1, p - 1)
                v == SubSeq(l, p + 1, Len(l))
            IN  (/\ l[p] = "="
                 /\ \A i \in 1..Len(k) : k[i] = "a"
                 /\ (v /= <<>> => v[1] \notin WS))
                => /\ last.thrown = null
                   /\ ObjHas(sections, <<"a">>)
                   /\ ObjHas(ObjGet(sections, <<"a">>), k)
                   /\ ObjGet(ObjGet(sections, <<"a">>), k) = v

\* ------------------------------------------------------------------------
\* C5
\* ------------------------------------------------------------------------

\* Apart from the whitespace around it, the line is "[", one or more
\* characters other than "]", and "]".
WholeLineHeader(l) ==
    LET t == Trimmed(l)
    IN  /\ Len(t) >= 3
        /\ t[1] = "["
        /\ t[Len(t)] = "]"
        /\ \A m \in 2..(Len(t) - 1) : t[m] /= "]"

\* C5: a line creates a section (read alone by a new parser, it leaves a
\* section in the store and throws nothing) exactly when the whole line is a
\* header, [name] with optional whitespace around it.
C5_HeaderIffWholeLine ==
    (last.op = "read" /\ Len(last.lines) = 1) =>
        ((last.thrown = null /\ sections /= <<>>) <=> WholeLineHeader(last.lines[1]))

\* ------------------------------------------------------------------------
\* C9
\* ------------------------------------------------------------------------

\* C9: inside a section, a line whose first character after the leading
\* whitespace is a delimiter is an invalid line: ParseError without a
\* callback, one call of the callback (with the line as the parser holds it)
\* and no error with one; the store gets no key and no section from it.
C9_LeadingDelimiterInvalid ==
    (/\ OneLineInSection
     /\ ~BlankLine(last.lines[2])
     /\ LeftTrimmed(last.lines[2])[1] \in {"=", ":"})
    => /\ sections = <<[k |-> <<"a">>, v |-> <<>>]>>
       /\ IF onInvalidLine
          THEN /\ last.thrown = null
               /\ last.calls = <<[file |-> last.file, lineNumber |-> 1,
                                  line |-> LeftTrimmed(last.lines[2])]>>
          ELSE ThrownName(last.thrown) = "ParseError"

\* ------------------------------------------------------------------------
\* C4
\* ------------------------------------------------------------------------

\* Two stores hold the same sections, the same keys in each and the same
\* values.
SameContent(a, b) ==
    /\ {a[i].k : i \in 1..Len(a)} = {b[i].k : i \in 1..Len(b)}
    /\ \A i \in 1..Len(a) :
          LET sa == a[i].v
              sb == ObjGet(b, a[i].k)
          IN  {<<sa[j].k, sa[j].v>> : j \in 1..Len(sa)}
                  = {<<sb[j].k, sb[j].v>> : j \in 1..Len(sb)}

\* What a new parser with the same options holds after reading the file that
\* write() makes of the store.
C4_ReadBack ==
    parseLines(<<>>, transform, onInvalidLine, last.file,
               split(getSectionsAsString(sections)))

\* C4: when a new parser has read a valid document (nothing thrown, no
\* invalid line), the text that write() makes of its store parses, in a new
\* parser with the same options, without error or invalid line into a store
\* with the same sections, keys and values.
C4_RoundTrip ==
    (last.op = "read" /\ last.before = <<>> /\ last.thrown = null /\ last.calls = <<>>) =>
        LET r == C4_ReadBack
        IN  /\ r.thrown = null
            /\ r.calls = <<>>
            /\ SameContent(r.sections, sections)

\* C4 happens: the store read back holds a value with a bracket or a
\* delimiter in it.
C4_Witness ==
    /\ last.op = "read"
    /\ last.thrown = null
    /\ \E i \in 1..Len(sections) : \E j \in 1..Len(sections[i].v) :
          LET v == sections[i].v[j].v
          IN  \E m \in 1..Len(v) : \E n \in 1..Len(v) :
                  v[m] \in {"[", "]"} /\ v[n] \in {"=", ":"}
    /\ SameContent(C4_ReadBack.sections, sections)

\* ------------------------------------------------------------------------
\* C6
\* ------------------------------------------------------------------------

\* The header lines of the last read that name section s, and, for one of
\* them, the line at which its section ends.
C6_Headers(s) ==
    {i \in 1..Len(last.lines) :
        HeaderLine(last.lines[i]) /\ Cased(HeaderName(last.lines[i])) = s}

C6_End(h) ==
    Min({j \in (h + 1)..Len(last.lines) : HeaderLine(last.lines[j])}
        \cup {Len(last.lines) + 1})

\* The key/value lines for key k under the last header that names s.
C6_Assignments(s, k) ==
    LET h == Max(C6_Headers(s))
    IN  {j \in (h + 1)..(C6_End(h) - 1) :
            KeyValueLine(last.lines[j]) /\ Cased(KeyOf(last.lines[j])) = k}

C6_Names ==
    {sections[i].k : i \in 1..Len(sections)}
    \cup {last.before[i].k : i \in 1..Len(last.before)}
    \cup {Cased(HeaderName(last.lines[i])) :
             i \in {n \in 1..Len(last.lines) : HeaderLine(last.lines[n])}}

C6_Keys ==
    UNION {{sections[i].v[j].k : j \in 1..Len(sections[i].v)} : i \in 1..Len(sections)}
    \cup {Cased(KeyOf(last.lines[i])) :
             i \in {n \in 1..Len(last.lines) : KeyValueLine(last.lines[n])}}

C7_DuplicateSection ==
    /\ last.op = "addSection" =>
          IF ObjHas(last.before, last.section)
          THEN /\ ThrownName(last.thrown) = "DuplicateSectionError"
               /\ sections = last.before
          ELSE /\ last.thrown = null
               /\ ObjHas(sections, last.section)
               /\ ObjGet(sections, last.section) = <<>>
               /\ ObjDelete(sections, last.section) = last.before
    /\ (last.op = "read" /\ C1_Orphans = {} /\ (C2_Invalid = {} \/ onInvalidLine)) =>
          last.thrown = null

\* C7 happens: addSection names a section that a read created and that
\* holds a key; it throws, and the key is still there.
C7_Witness ==
    /\ last.op = "addSection"
    /\ ThrownName(last.thrown) = "DuplicateSectionError"
    /\ ObjHas(sections, last.section)
    /\ ObjGet(sections, last.section) /= <<>>

\* ------------------------------------------------------------------------
\* C8
\* ------------------------------------------------------------------------

\* Blank lines and comment lines.
C8_Skipped ==
    { <<>>,
      <<" ">>,
      <<"#", "k", "=", "v">>,
      <<" ", ";", "[", "A", "]">> }

InsertAt(lines, p, c) == SubSeq(lines, 1, p) \o <<c>> \o SubSeq(lines, p + 1, Len(lines))

C8_ReadWith(p, c) ==
    parseLines(last.before, transform, onInvalidLine, last.file,
               InsertAt(last.lines, p, c))

\* C8: a blank line or a comment line put anywhere into the document of the
\* last read changes neither the store the read leaves, nor the current
\* section at its end, nor the kind of error it throws, nor the number of
\* invalid lines it reports.
C8_SkippedLinesChangeNothing ==
    last.op = "read" =>
        \A p \in 0..Len(last.lines) : \A c \in C8_Skipped :
            LET r == C8_ReadWith(p, c)
            IN  /\ BlankLine(c) \/ CommentLine(c)
                /\ r.sections = sections
                /\ r.curSec = last.curSec
                /\ ThrownName(r.thrown) = ThrownName(last.thrown)
                /\ Len(r.calls) = Len(last.calls)

\* C8 happens: the document read holds a blank or comment line between a
\* header and a key/value line, and the key is stored.
C8_Witness ==
    /\ last.op = "read"
    /\ last.thrown = null
    /\ \E h \in 1..Len(last.lines) : \E c \in 1..Len(last.lines) : \E n \in 1..Len(last.lines) :
          /\ h < c
          /\ c < n
          /\ HeaderLine(last.lines[h])
          /\ BlankLine(last.lines[c]) \/ CommentLine(last.lines[c])
          /\ KeyValueLine(last.lines[n])
          /\ ObjHas(ObjGet(sections, last.curSec[1]), Cased(KeyOf(last.lines[n])))

\* ------------------------------------------------------------------------
\* C10
\* ------------------------------------------------------------------------

C10_HeaderNames ==
    {Cased(HeaderName(last.lines[i])) :
        i \in {n \in 1..Len(last.lines) : HeaderLine(last.lines[n])}}

TerminatorChars == {"\n", "\r", "NEL", "LS", "PS"}

\* The positions of the text at which a terminator starts: CR, LF, NEL, LS
\* and PS, but for an LF that follows a CR, with which it is one terminator.
C11_TerminatorStarts(t) ==
    {i \in 1..Len(t) :
        /\ t[i] \in TerminatorChars
        /\ ~(t[i] = "\n" /\ i > 1 /\ t[i - 1] = "\r")}

\* The text without its terminators.
C11_Content(t) == SelectSeq(t, LAMBDA c : c \notin TerminatorChars)

\* What the parser makes of the same lines when LF ends each of them.
C11_ReadWithLF ==
    LET lf == split(DocText(last.lines))
    IN  [lines |-> lf,
         res |-> parseLines(last.before, transform, onInvalidLine, last.file, lf)]

\* C11: each of CRLF, LF, CR, NEL, LS and PS ends a line, CRLF as one
\* terminator: the lines read are one more than the terminators of the text,
\* hold no terminator character and hold the rest of the text in order; and
\* the read leaves the store, throws the error (kind, line number, line) and
\* reports the invalid lines that the same lines separated by LF do.
C11_TerminatorsAlike ==
    last.op = "read" =>
        /\ Len(last.lines) = 1 + Cardinality(C11_TerminatorStarts(last.text))
        /\ \A i \in 1..Len(last.lines) : \A j \in 1..Len(last.lines[i]) :
              last.lines[i][j] \notin TerminatorChars
        /\ C11_Content(JoinLines(last.lines, 1)) = C11_Content(last.text)
        /\ LET r == C11_ReadWithLF
           IN  /\ r.lines = last.lines
               /\ r.res.sections = sections
               /\ r.res.thrown = last.thrown
               /\ r.res.calls = last.calls

\* C11 happens: a document of three lines separated by CRLF and by LS, with
\* no LF alone, stores a key.
C11_Witness ==
    /\ last.op = "read"
    /\ Len(last.lines) = 3
    /\ \E i \in 1..Len(last.text) : last.text[i] = "LS"
    /\ \E i \in 1..(Len(last.text) - 1) : last.text[i] = "\r" /\ last.text[i + 1] = "\n"
    /\ Cardinality({i \in 1..Len(last.text) : last.text[i] = "\n"}) = 1
    /\ last.thrown = null
    /\ \E i \in 1..Len(sections) : sections[i].v /= <<>>

\* ------------------------------------------------------------------------
\* C12
\* ------------------------------------------------------------------------

\* The text of one key and of one section: "key=value\n", and "[name]\n",
\* the keys of the section one after the other, and an empty line.
C12_KeyText(key, value) == key \o <<"=">> \o value \o <<"\n">>

RECURSIVE C12_Concat(_)
C12_Concat(texts) ==
    IF texts = <<>> THEN <<>> ELSE Head(texts) \o C12_Concat(Tail(texts))

C12_KeysText(sec) == C12_Concat([j \in 1..Len(sec) |-> C12_KeyText(sec[j].k, sec[j].v)])

C12_SectionText(name, sec) ==
    <<"[">> \o name \o <<"]", "\n">> \o C12_KeysText(sec) \o <<"\n">>

\* The text that write() makes of a store.
C12_Written(store) == getSectionsAsString(store)

\* C12: write and writeAsync emit "[name]\n", one "key=value\n" per key and
\* an empty line for each section, and they emit the sections, and the keys
\* of a section, in the order of their first insertion, whatever the names
\* (names made of digits too): the section that addSection has just
\* inserted is written after all the others, and a key that set has just
\* inserted is written after the other keys of its section; a set of a key
\* the section holds leaves the order as it is.
C12_InsertionOrder ==
    /\ last.op \in {"write", "writeAsync"} =>
          /\ last.thrown = null
          /\ last.result =
                 JsString(C12_Concat([i \in 1..Len(sections) |->
                                         C12_SectionText(sections[i].k, sections[i].v)]))
    /\ (last.op = "addSection" /\ last.thrown = null) =>
          C12_Written(sections)
              = C12_Written(last.before) \o C12_SectionText(last.section, <<>>)
    /\ (last.op = "set" /\ ObjHas(last.before, last.section)) =>
          LET old == ObjGet(last.before, last.section)
              new == ObjGet(sections, last.section)
          IN  /\ ObjKeys(sections) = ObjKeys(last.before)
              /\ IF ObjHas(old, last.key)
                 THEN ObjKeys(new) = ObjKeys(old)
                 ELSE C12_KeysText(new)
                          = C12_KeysText(old) \o C12_KeyText(last.key, last.value)

\* ------------------------------------------------------------------------
\* C13
\* ------------------------------------------------------------------------

\* The string the store holds at store[section][key], undefined when it
\* holds none.
C13_Stored(store, section, key) ==
    IF \E i \in 1..Len(store) :
           store[i].k = section /\ \E j \in 1..Len(store[i].v) : store[i].v[j].k = key
    THEN LET i == CHOOSE a \in 1..Len(store) : store[a].k = section
             j == CHOOSE b \in 1..Len(store[i].v) : store[i].v[b].k = key
         IN  JsString(store[i].v[j].v)
    ELSE undefined

\* C13: a raw get throws nothing, changes nothing and returns the string the
\* store holds at store[section][key], placeholders unexpanded, undefined
\* when there is none; a get of a section the store does not hold returns
\* undefined, raw or not. What a raw get returns right after a call is the
\* value of that call: after set on a section the store holds it is the
\* value set, after removeKey undefined, after a load the value text of the
\* last line for the key.
C13_RawGet ==
    /\ (last.op = "get" /\ last.raw) =>
          /\ last.thrown = null
          /\ last.result = C13_Stored(last.before, last.section, last.key)
          /\ sections = last.before
    /\ (last.op = "get" /\ \A i \in 1..Len(last.before) : last.before[i].k /= last.section) =>
          /\ last.thrown = null
          /\ last.result = undefined
    /\ (last.op = "set" /\ ObjHas(last.before, last.section)) =>
          get(sections, last.section, last.key, TRUE) = Returns(JsString(last.value))
    /\ last.op = "removeKey" =>
          get(sections, last.section, last.key, TRUE) = Returns(undefined)
    /\ (last.op = "read" /\ last.thrown = null) =>
          \A s \in C6_Names : \A k \in C6_Keys :
              (C6_Headers(s) /= {} /\ C6_Assignments(s, k) /= {}) =>
                  get(sections, s, k, TRUE)
                      = Returns(JsString(ValueOf(last.lines[Max(C6_Assignments(s, k))])))

\* ------------------------------------------------------------------------
\* C14
\* ------------------------------------------------------------------------

\* The keys that the value v names in a placeholder %(name)s.
C14_Named(v) ==
    {SubSeq(v, i + 2, j - 1) : <<i, j>> \in
        {p \in (1..Len(v)) \X (1..Len(v)) :
            /\ p[1] + 2 < p[2]
            /\ p[2] < Len(v)
            /\ v[p[1]] = "%" /\ v[p[1] + 1] = "("
            /\ v[p[2]] = ")" /\ v[p[2] + 1] = "s"
            /\ \A m \in (p[1] + 2)..(p[2] - 1) : v[m] /= ")"}}

\* The keys of section sec that the keys of S name, directly or through
\* other keys.
RECURSIVE C14_Reached(_, _)
C14_Reached(sec, S) ==
    LET more == UNION {C14_Named(sec[j].v) : j \in {n \in 1..Len(sec) : sec[n].k \in S}}
    IN  IF more \subseteq S THEN S ELSE C14_Reached(sec, S \cup more)

\* The value of the key belongs to a cycle of placeholders of its section.
C14_Cyclic(store, section, key) ==
    \E i \in 1..Len(store) :
        /\ store[i].k = section
        /\ \E j \in 1..Len(store[i].v) :
              /\ store[i].v[j].k = key
              /\ key \in C14_Reached(store[i].v, C14_Named(store[i].v[j].v))

\* C14: a get that is not raw, of a key whose value names itself or lies on
\* a cycle of placeholders, ends with InterpolationError; the store is as
\* it was, and so is the rest of the parser.
C14_CycleFails ==
    (last.op = "get" /\ ~last.raw /\ C14_Cyclic(last.before, last.section, last.key)) =>
        /\ ThrownName(last.thrown) = "InterpolationError"
        /\ sections = last.before

\* C14 happens: k = %(0)s and 0 = %(k)s in one section, and a get of k that
\* is not raw.
C14_Witness ==
    /\ last.op = "get"
    /\ ~last.raw
    /\ last.key = <<"k">>
    /\ C13_Stored(sections, last.section, <<"k">>) = JsString(<<"%", "(", "0", ")", "s">>)
    /\ C13_Stored(sections, last.section, <<"0">>) = JsString(<<"%", "(", "k", ")", "s">>)
    /\ ThrownName(last.thrown) = "InterpolationError"

\* ------------------------------------------------------------------------
\* C16
\* ------------------------------------------------------------------------

C16_HasSection == \E i \in 1..Len(last.before) : last.before[i].k = last.section

\* C16: getInt and getFloat throw nothing and change nothing; they return
\* undefined when the store does not hold the section, and NaN when it
\* holds the section but the section does not hold the key.
C16_NumbersOfAbsent ==
    last.op \in {"getInt", "getFloat"} =>
        /\ last.thrown = null
        /\ sections = last.before
        /\ ~C16_HasSection => last.result = undefined
        /\ (C16_HasSection /\ C13_Stored(last.before, last.section, last.key) = undefined)
              => last.result = NaN

\* C16 happens: getInt of a key that its section does not hold, in a store
\* whose section holds another key with a number.
C16_Witness ==
    /\ last.op = "getInt"
    /\ C16_HasSection
    /\ C13_Stored(sections, last.section, last.key) = undefined
    /\ \E k \in KeyArgs : getInt(sections, last.section, k, 0).result.t = "number"
    /\ last.result = NaN

\* ------------------------------------------------------------------------
\* C17
\* ------------------------------------------------------------------------

\* The names of the sections and of the keys of a section.
C17_Names(store) == {store[i].k : i \in 1..Len(store)}

\* C17: keys(section) throws NoSectionError when the store does not hold the
\* section, and returns the names of the keys of the section, without
\* error, when it does; it changes nothing. So keys succeeds exactly when
\* hasSection answers true, and after removeSection of the section it
\* throws.
C17_KeysIffHasSection ==
    /\ last.op = "keys" =>
          /\ sections = last.before
          /\ IF last.section \in C17_Names(last.before)
             THEN /\ last.thrown = null
                  /\ last.result.t = "array"
                  /\ \E i \in 1..Len(last.before) :
                        /\ last.before[i].k = last.section
                        /\ Len(last.result.v) = Len(last.before[i].v)
                        /\ C17_Names(last.before[i].v)
                               = {last.result.v[j] : j \in 1..Len(last.result.v)}
             ELSE /\ ThrownName(last.thrown) = "NoSectionError"
                  /\ last.thrown[1].args = <<last.section>>
          /\ (last.thrown = null) <=> hasSection(last.before, last.section)
    /\ last.op = "hasSection" =>
          /\ last.result = JsBoolean(last.section \in C17_Names(last.before))
          /\ last.result = JsBoolean(keys(sections, last.section).thrown = null)
    /\ last.op = "removeSection" =>
          ThrownName(keys(sections, last.section).thrown) = "NoSectionError"

\* ------------------------------------------------------------------------
\* C20
\* ------------------------------------------------------------------------

\* The store a but for section s / section sec but for key k: the names in
\* their order and what they hold.
C20_Without(o, name) == SelectSeq(o, LAMBDA e : e.k /= name)

C20_HasKey(store, section, key) == C13_Stored(store, section, key) /= undefined

\* C20: set, removeKey and removeSection throw nothing. On a section the
\* store does not hold, set changes nothing; removeKey returns false and
\* changes nothing when the section or the key is missing, removeSection
\* when the section is. Otherwise removeKey and removeSection return true
\* and take away that key, that section, and nothing else, and set changes
\* store[section][key], which becomes the value, and nothing else.
C20_MutatorsFrame ==
    /\ last.op \in {"set", "removeKey", "removeSection"} => last.thrown = null
    /\ last.op = "set" =>
          IF last.section \notin C17_Names(last.before)
          THEN sections = last.before
          ELSE /\ C13_Stored(sections, last.section, last.key) = JsString(last.value)
               /\ C17_Names(sections) = C17_Names(last.before)
               /\ C20_Without(sections, last.section)
                      = C20_Without(last.before, last.section)
               /\ C20_Without(ObjGet(sections, last.section), last.key)
                      = C20_Without(ObjGet(last.before, last.section), last.key)
    /\ last.op = "removeKey" =>
          IF C20_HasKey(last.before, last.section, last.key)
          THEN /\ last.result = JsBoolean(TRUE)
               /\ ~C20_HasKey(sections, last.section, last.key)
               /\ C17_Names(sections) = C17_Names(last.before)
               /\ C20_Without(sections, last.section)
                      = C20_Without(last.before, last.section)
               /\ ObjGet(sections, last.section)
                      = C20_Without(ObjGet(last.before, last.section), last.key)
          ELSE /\ last.result = JsBoolean(FALSE)
               /\ sections = last.before
    /\ last.op = "removeSection" =>
          IF last.section \in C17_Names(last.before)
          THEN /\ last.result = JsBoolean(TRUE)
               /\ sections = C20_Without(last.before, last.section)
          ELSE /\ last.result = JsBoolean(FALSE)
               /\ sections = last.before

\* C20 happens: set names a section that the store does not hold, the store
\* holds another section with a key, and nothing changes.
C20_Witness ==
    /\ last.op = "set"
    /\ last.section \notin C17_Names(last.before)
    /\ \E i \in 1..Len(last.before) : last.before[i].v /= <<>>
    /\ sections = last.before

\* ------------------------------------------------------------------------
\* C18
\* ------------------------------------------------------------------------

\* The number of the line at which the last load failed.
C18_FailedAt == last.thrown[1].args[2]

\* What a load of the lines before the failing one, and of nothing else,
\* makes of the store the load found.
C18_LinesBefore ==
    parseLines(last.before, transform, onInvalidLine, last.file,
               SubSeq(last.lines, 1, C18_FailedAt))

\* C18: a load that fails at line i with MissingSectionHeaderError or
\* ParseError is not undone: the lines 0..i-1 load without error, and the
\* store after the failed load is the store they leave (each header among
\* them names a section of the store); the failing line and the lines after
\* it change nothing, and the callback is called for no line after i.
C18_NoRollback ==
    (last.op = "read" /\ last.thrown /= null) =>
        /\ ThrownName(last.thrown) \in {"MissingSectionHeaderError", "ParseError"}
        /\ C18_FailedAt \in 0..(Len(last.lines) - 1)
        /\ C18_LinesBefore.thrown = null
        /\ sections = C18_LinesBefore.sections
        /\ last.calls = C18_LinesBefore.calls
        /\ \A j \in 1..C18_FailedAt :
              HeaderLine(last.lines[j]) =>
                  \E n \in 1..Len(sections) : sections[n].k = Cased(HeaderName(last.lines[j]))

\* C18 happens: a load fails with ParseError after it made a section that
\* the store did not hold, and a header after the failing line names a
\* section that the store does not hold.
C18_Witness ==
    /\ last.op = "read"
    /\ ThrownName(last.thrown) = "ParseError"
    /\ \E n \in 1..Len(sections) :
          \A m \in 1..Len(last.before) : last.before[m].k /= sections[n].k
    /\ \E j \in (C18_FailedAt + 2)..Len(last.lines) :
          /\ HeaderLine(last.lines[j])
          /\ \A n \in 1..Len(sections) : sections[n].k /= Cased(HeaderName(last.lines[j]))

\* ------------------------------------------------------------------------
\* C15
\* ------------------------------------------------------------------------

\* What is carried for a line of the last load: the file the load was asked
\* to read, the number of a line of its content, and the text of that line
\* (as parseLines sees it, without its leading whitespace).
C15_Carries(f, lineNumber, line) ==
    /\ f = last.file
    /\ lineNumber \in 0..(Len(last.lines) - 1)
    /\ line = StripLeading(last.lines[lineNumber + 1])

\* C15: every MissingSectionHeaderError, every ParseError and every call of
\* onInvalidLine of a load carries the file whose content holds the line,
\* with the number and the text of the line, after any sequence of read
\* calls and when readAsync calls on the instance overlap.
C15_ErrorsNameTheirFile ==
    (last.op \in {"read", "readAsync"}) =>
        /\ last.thrown /= null =>
               C15_Carries(last.thrown[1].args[1], last.thrown[1].args[2],
                           last.thrown[1].args[3])
        /\ \A n \in 1..Len(last.calls) :
               C15_Carries(last.calls[n].file, last.calls[n].lineNumber,
                           last.calls[n].line)

\* ------------------------------------------------------------------------
\* C19
\* ------------------------------------------------------------------------

\* The number of lines of the last load that took effect: all of them, or
\* those before the line that threw.
C19_Processed ==
    IF last.thrown = null THEN Len(last.lines) ELSE last.thrown[1].args[2]

\* What read makes of the store the last load found, given the same file
\* name and the same content.
C19_AsRead ==
    parseLines(last.before, transform, onInvalidLine, last.file, split(last.text))

\* An error or a callback argument without the file it carries.
C19_Line(args) == <<args[2], args[3]>>

C19_CallLines(calls) ==
    [n \in 1..Len(calls) |-> <<calls[n].lineNumber, calls[n].line>>]

\* The store after two loads, one after the other, of a store.
C19_InOrder(store, first, second) ==
    parseLines(parseLines(store, transform, onInvalidLine, null, first).sections,
               transform, onInvalidLine, null, second).sections

\* The header lines among the lines of the last load that took effect that
\* name section s.
C19_Headed(s) == {h \in C6_Headers(s) : h <= C19_Processed}

\* Key k with value v of section s comes from the last load: from a
\* key/value line that took effect, under a header of s of the same content.
C19_FromThisLoad(s, k, v) ==
    \E h \in C19_Headed(s) : \E j \in (h + 1)..(C6_End(h) - 1) :
        /\ j <= C19_Processed
        /\ KeyValueLine(last.lines[j])
        /\ Cased(KeyOf(last.lines[j])) = k
        /\ ValueOf(last.lines[j]) = v

\* Key k with value v of section s was there before the last load, in a
\* section that the load did not make anew.
C19_FromBefore(s, k, v) ==
    /\ C19_Headed(s) = {}
    /\ ObjHas(last.before, s)
    /\ ObjHas(ObjGet(last.before, s), k)
    /\ ObjGet(ObjGet(last.before, s), k) = v

\* C19: a readAsync whose bytes have arrived parses them in one piece: it
\* leaves the store, throws the error (name, line number, line) and makes
\* the callback calls that read makes for the same content on the same
\* store, and the same error and calls to the letter when no other load
\* was started while it waited; when two readAsync calls complete one after
\* the other, the store is the store of the two loads run one after the
\* other in one of the two orders; every section of the store was there
\* before the load or is named by a header of its content, and every key is
\* either a key of a section the load left alone or comes from a key/value
\* line of the same content under a header of that content.
C19_ParsesInOnePiece ==
    (last.op = "readAsync") =>
        /\ sections = C19_AsRead.sections
        /\ ThrownName(last.thrown) = ThrownName(C19_AsRead.thrown)
        /\ last.thrown /= null =>
               C19_Line(last.thrown[1].args) = C19_Line(C19_AsRead.thrown[1].args)
        /\ C19_CallLines(last.calls) = C19_CallLines(C19_AsRead.calls)
        /\ last.fileAtParse = last.file =>
               /\ last.thrown = C19_AsRead.thrown
               /\ last.calls = C19_AsRead.calls
        /\ last.prev.op = "readAsync" =>
               sections \in { C19_InOrder(last.prev.before, last.prev.lines, last.lines),
                              C19_InOrder(last.prev.before, last.lines, last.prev.lines) }
        /\ \A n \in 1..Len(sections) :
               /\ ObjHas(last.before, sections[n].k) \/ C19_Headed(sections[n].k) /= {}
               /\ \A m \in 1..Len(sections[n].v) :
                     \/ C19_FromBefore(sections[n].k, sections[n].v[m].k, sections[n].v[m].v)
                     \/ C19_FromThisLoad(sections[n].k, sections[n].v[m].k, sections[n].v[m].v)

\* C19 happens: two readAsync calls waited at the same time, the bytes of
\* one arrived and then those of the other, each stored a key in a section
\* of its own, and the two orders of loading give different stores.
C19_Witness ==
    /\ last.op = "readAsync"
    /\ last.prev.op = "readAsync"
    /\ last.prev.waiting[last.file] > 0
    /\ last.thrown = null
    /\ Len(sections) = 2
    /\ \A n \in 1..Len(sections) : sections[n].v /= <<>>
    /\ last.prev.before = <<>>
    /\ C19_InOrder(<<>>, last.prev.lines, last.lines)
           /= C19_InOrder(<<>>, last.lines, last.prev.lines)

====
